---------------------------- MODULE Spec2Model ----------------------------
(* A model of the AdSense auditor: the page analyser and the fetch          *)
(* orchestrator of audit.js, and the HTTP request handler of the server.    *)
(* Text is modelled as sequences of one-character strings, so that the      *)
(* regular expressions and string methods of the code are computed, not     *)
(* assumed.                                                                 *)
EXTENDS Integers, Sequences, FiniteSets, TLC

VARIABLES
    pc,         \* per auditSite call: where the async function is suspended
    url,        \* per call: the argument of auditSite
    locals,     \* per call: the local variables response / result
    got,        \* per call: the outcomes the awaited promises settled with
    requests,   \* per call: the outbound GETs issued, in order
    steps,      \* per call: the phases the call went through, in order
    settled,    \* per call: state and value of the promise auditSite returned
    lastIndex,  \* the lastIndex property of the module-level RegExp objects
    peak,       \* the largest number of calls that were in flight at once
    srv,        \* the request handler of the server: one request in flight
    doc,        \* analyser harness: the markup being assembled
    analysed    \* analyser harness: the value analyseHtml returned for doc

vars == <<pc, url, locals, got, requests, steps, settled, peak, lastIndex, srv, doc, analysed>>

auditVars == <<pc, url, locals, got, requests, steps, settled, peak>>
harnessVars == <<doc, analysed>>

-----------------------------------------------------------------------------
(* Bounds of the model.                                                     *)

\* Number of auditSite calls in flight at once.
NCalls == 2
\* Number of chunks the analyser harness concatenates into one markup.
MaxChunks == 5

-----------------------------------------------------------------------------
(* Characters and strings.                                                  *)

UpperChars == <<"A","B","C","D","E","F","G","H","I","J","K","L","M",
                "N","O","P","Q","R","S","T","U","V","W","X","Y","Z">>
LowerChars == <<"a","b","c","d","e","f","g","h","i","j","k","l","m",
                "n","o","p","q","r","s","t","u","v","w","x","y","z">>

UpperSet == {UpperChars[i] : i \in 1..Len(UpperChars)}
LowerSet == {LowerChars[i] : i \in 1..Len(LowerChars)}

UpperToLower ==
    [ch \in UpperSet |-> LowerChars[CHOOSE i \in 1..Len(UpperChars) : UpperChars[i] = ch]]
LowerToUpper ==
    [ch \in LowerSet |-> UpperChars[CHOOSE i \in 1..Len(LowerChars) : LowerChars[i] = ch]]

\* String.prototype.toLowerCase, one code unit.
LowerChar(ch) == IF ch \in UpperSet THEN UpperToLower[ch] ELSE ch

\* toUpperCase of one code unit, which is what the i flag canonicalises with.
UpperChar(ch) == IF ch \in LowerSet THEN LowerToUpper[ch] ELSE ch

toLowerCase(s) == [i \in 1..Len(s) |-> LowerChar(s[i])]

\* The characters \s matches, among those the model's texts use.
WhiteSpace == {" ", "\t", "\n"}

\* s.substring(from, to) with 0-based, end-exclusive offsets.
Substring(s, from, to) == [i \in 1..(to - from) |-> s[from + i]]

RECURSIVE TrimStart(_)
TrimStart(s) ==
    IF Len(s) > 0 /\ s[1] \in WhiteSpace THEN TrimStart(Tail(s)) ELSE s

RECURSIVE TrimEnd(_)
TrimEnd(s) ==
    IF Len(s) > 0 /\ s[Len(s)] \in WhiteSpace
    THEN TrimEnd(SubSeq(s, 1, Len(s) - 1))
    ELSE s

\* String.prototype.trim
trim(s) == TrimEnd(TrimStart(s))

\* Whether lit occurs in s at 0-based offset p, exactly.
OccursAt(lit, s, p) ==
    /\ p + Len(lit) <= Len(s)
    /\ \A k \in 1..Len(lit) : s[p + k] = lit[k]

\* String.prototype.includes
includes(s, lit) == \E p \in 0..Len(s) : OccursAt(lit, s, p)

-----------------------------------------------------------------------------
(* Regular expressions. A pattern is a list of alternatives, each a list of *)
(* elements: a literal, an optional literal, \s?, \s+ or [^c]*. None of the *)
(* patterns of the code needs backtracking inside an alternative: every     *)
(* greedy element is followed by a literal that the element cannot match.   *)

Canonicalize(ch, ignoreCase) == IF ignoreCase THEN UpperChar(ch) ELSE ch

LitAt(lit, s, p, ignoreCase) ==
    /\ p + Len(lit) <= Len(s)
    /\ \A k \in 1..Len(lit) :
          Canonicalize(s[p + k], ignoreCase) = Canonicalize(lit[k], ignoreCase)

\* The offset after the longest run, from p, of characters in set (neg:
\* not in set).
RECURSIVE RunEnd(_, _, _, _)
RunEnd(s, p, set, neg) ==
    IF p < Len(s) /\ ((s[p + 1] \in set) # neg)
    THEN RunEnd(s, p + 1, set, neg)
    ELSE p

\* A greedy \s+ ran from p to q: it fails when it matched nothing.
AtLeastOne(p, q) == IF q > p THEN q ELSE -1

\* The offset after element e matched at offset p, or -1.
ElemEnd(e, s, p, ignoreCase) ==
    CASE e.t = "lit" -> IF LitAt(e.s, s, p, ignoreCase) THEN p + Len(e.s) ELSE -1
      [] e.t = "opt" -> IF LitAt(e.s, s, p, ignoreCase) THEN p + Len(e.s) ELSE p
      [] e.t = "ws?" -> IF p < Len(s) /\ s[p + 1] \in WhiteSpace THEN p + 1 ELSE p
      [] e.t = "ws+" -> AtLeastOne(p, RunEnd(s, p, WhiteSpace, FALSE))
      [] e.t = "not*" -> RunEnd(s, p, {e.c}, TRUE)

\* The offsets <<p, after element 1, ..., after the last element>> of a match
\* of the alternative elems at offset p, or <<>>; q is the offset after
\* element k - 1, or -1 when that element failed.
RECURSIVE MatchElems(_, _, _, _, _, _)
MatchElems(elems, k, s, q, ignoreCase, acc) ==
    IF q = -1 THEN <<>>
    ELSE IF k > Len(elems) THEN Append(acc, q)
    ELSE MatchElems(elems, k + 1, s, ElemEnd(elems[k], s, q, ignoreCase),
                    ignoreCase, Append(acc, q))

\* The match m when there is one, else the next attempt.
OrElse(m, next) == IF m # <<>> THEN m ELSE next

\* The first alternative that matches at p decides.
RECURSIVE MatchAlts(_, _, _, _, _)
MatchAlts(alts, i, s, p, ignoreCase) ==
    IF i > Len(alts) THEN <<>>
    ELSE OrElse(MatchElems(alts[i], 1, s, p, ignoreCase, <<>>),
                MatchAlts(alts, i + 1, s, p, ignoreCase))

\* The match at the least of the offsets hits, <<>> when there is none.
Leftmost(re, s, hits) ==
    IF hits = {} THEN <<>>
    ELSE MatchAlts(re.alts, 1, s, CHOOSE q \in hits : \A r \in hits : q <= r,
                   re.ignoreCase)

\* The leftmost match at or after offset p; an anchored pattern (^) matches
\* at offset 0 only.
Search(re, s, p) ==
    Leftmost(re, s,
             {q \in p..Len(s) :
                 /\ re.anchored => q = 0
                 /\ MatchAlts(re.alts, 1, s, q, re.ignoreCase) # <<>>})

\* What exec returns for the match m (<<>>: none), and lastIndex after it: a
\* pattern without the g flag leaves lastIndex alone; with it, lastIndex
\* becomes the end of the match, or 0 when there is none.
ExecResult(re, m, li) ==
    [ found     |-> m # <<>>,
      offsets   |-> m,
      lastIndex |-> IF re.global
                    THEN (IF m = <<>> THEN 0 ELSE m[Len(m)])
                    ELSE li ]

\* RegExp.prototype.exec: a pattern without the g flag searches from 0, one
\* with it from lastIndex.
RegExpExec(re, s, li) ==
    ExecResult(re,
               IF (re.global /\ li > Len(s)) THEN <<>>
               ELSE Search(re, s, IF re.global THEN li ELSE 0),
               li)

\* String.prototype.match with a g pattern: lastIndex is reset to 0 and every
\* match is collected, each search starting where the last match m ended (one
\* further after an empty match).
RECURSIVE MatchAllFrom(_, _, _, _)
MatchAllFrom(re, s, m, acc) ==
    IF m = <<>> THEN acc
    ELSE MatchAllFrom(re, s,
                      Search(re, s, IF m[Len(m)] = m[1] THEN m[Len(m)] + 1 ELSE m[Len(m)]),
                      Append(acc, Substring(s, m[1], m[Len(m)])))

\* null when nothing matches, else the array of matches.
MatchArray(all) == [isNull |-> all = <<>>, items |-> all]

matchGlobal(s, re) == MatchArray(MatchAllFrom(re, s, Search(re, s, 0), <<>>))

Lit(chars) == [t |-> "lit", s |-> chars]


-----------------------------------------------------------------------------
(* The patterns of audit.js. The four module-level ones are RegExp objects  *)
(* shared by every call; the others are literals, evaluated afresh.         *)

PatternNames == {"bannedPattern", "adsenseScriptPattern", "privacyPattern", "contactPattern"}

\* (porn|xxx|sex\s?cam|escort|casino|betting|gambl)
BannedAlternatives ==
    << <<Lit(<<"p","o","r","n">>)>>, <<Lit(<<"x","x","x">>)>>,
       <<Lit(<<"s","e","x">>), [t |-> "ws?"], Lit(<<"c","a","m">>)>>,
       <<Lit(<<"e","s","c","o","r","t">>)>>, <<Lit(<<"c","a","s","i","n","o">>)>>, <<Lit(<<"b","e","t","t","i","n","g">>)>>, <<Lit(<<"g","a","m","b","l">>)>> >>

\* The pattern with the g flag added: test() then moves lastIndex.
bannedPatternGlobal ==
    [ name |-> "bannedPattern", alts |-> BannedAlternatives,
      anchored |-> FALSE, ignoreCase |-> TRUE, global |-> TRUE ]

\* /(porn|xxx|sex\s?cam|escort|casino|betting|gambl)/i
bannedPattern ==
    [ name |-> "bannedPattern", alts |-> BannedAlternatives,
      anchored |-> FALSE, ignoreCase |-> TRUE, global |-> FALSE ]

\* /(adsbygoogle|adsense|pagead\/js)/i
adsenseScriptPattern ==
    [ name |-> "adsenseScriptPattern",
      alts |-> << <<Lit(<<"a","d","s","b","y","g","o","o","g","l","e">>)>>, <<Lit(<<"a","d","s","e","n","s","e">>)>>, <<Lit(<<"p","a","g","e","a","d","/","j","s">>)>> >>,
      anchored |-> FALSE, ignoreCase |-> TRUE, global |-> FALSE ]

\* /privacy\s+policy/i
privacyPattern ==
    [ name |-> "privacyPattern",
      alts |-> << <<Lit(<<"p","r","i","v","a","c","y">>), [t |-> "ws+"], Lit(<<"p","o","l","i","c","y">>)>> >>,
      anchored |-> FALSE, ignoreCase |-> TRUE, global |-> FALSE ]

\* /contact(\s+us)?/i : the optional group is tried first, being greedy.
contactPattern ==
    [ name |-> "contactPattern",
      alts |-> << <<Lit(<<"c","o","n","t","a","c","t">>), [t |-> "ws+"], Lit(<<"u","s">>)>>, <<Lit(<<"c","o","n","t","a","c","t">>)>> >>,
      anchored |-> FALSE, ignoreCase |-> TRUE, global |-> FALSE ]

\* /<title[^>]*>([^<]*)<\/title>/i
titlePattern ==
    [ name |-> "title",
      alts |-> << <<Lit(<<"<","t","i","t","l","e">>), [t |-> "not*", c |-> ">"], Lit(<<">">>),
                    [t |-> "not*", c |-> "<"], Lit(<<"<","/","t","i","t","l","e",">">>)>> >>,
      anchored |-> FALSE, ignoreCase |-> TRUE, global |-> FALSE ]

\* /adsbygoogle/g
adMarkerPattern ==
    [ name |-> "adMarker",
      alts |-> << <<Lit(<<"a","d","s","b","y","g","o","o","g","l","e">>)>> >>,
      anchored |-> FALSE, ignoreCase |-> FALSE, global |-> TRUE ]

\* The pattern with one slash only: /^https?:\//i
urlPatternOneSlash ==
    [ name |-> "url",
      alts |-> << <<Lit(<<"h","t","t","p">>), [t |-> "opt", s |-> <<"s">>], Lit(<<":","/">>)>> >>,
      anchored |-> TRUE, ignoreCase |-> TRUE, global |-> FALSE ]

\* /^https?:\/\//i
urlPattern ==
    [ name |-> "url",
      alts |-> << <<Lit(<<"h","t","t","p">>), [t |-> "opt", s |-> <<"s">>], Lit(<<":","/","/">>)>> >>,
      anchored |-> TRUE, ignoreCase |-> TRUE, global |-> FALSE ]

\* 'ads.txt'
AdsTxtLiteral == <<"a","d","s",".","t","x","t">>

\* The module is loaded once: every lastIndex is 0.
InitLastIndex == [n \in PatternNames |-> 0]

\* RegExp.prototype.test on a module-level pattern, whose lastIndex is
\* li[re.name]: whether it matched, and its lastIndex after the call.
test(re, s, li) == RegExpExec(re, s, li[re.name])

\* test on a pattern literal, whose RegExp object is new (lastIndex 0) and is
\* dropped after the call.
testLiteral(re, s) == RegExpExec(re, s, 0).found

-----------------------------------------------------------------------------
(* The page analyser.                                                       *)

\* The threshold of line 69.
AdThreshold == 3

\* if (adMatches && adMatches.length >= 3)
TooManyAdsAtThreshold(adMatches) == (~adMatches.isNull) /\ Len(adMatches.items) >= AdThreshold

\* if (adMatches && adMatches.length > 3)
TooManyAds(adMatches) == (~adMatches.isNull) /\ Len(adMatches.items) > AdThreshold

\* Line 57: the title, from the match of the title pattern.
TitleOf(html, titleMatch) ==
    IF titleMatch.found
    THEN trim(Substring(html, titleMatch.offsets[4], titleMatch.offsets[5]))
    ELSE <<>>

\* Lines 39-54 and 57-74: the object returned, from what the matches gave, and
\* the lastIndex properties of the shared patterns after the four tests.
AnalysisResult(html, titleMatch, banned, adsense, privacy, contact, adMatches, referenced, li) ==
    [ result |->
        [ ok     |-> TRUE,
          page   |-> [title |-> TitleOf(html, titleMatch), length |-> Len(html)],
          checks |-> [ banned_content         |-> banned.found,
                       adsense_script_present |-> adsense.found,
                       privacy_policy_present |-> privacy.found,
                       contact_info_present   |-> contact.found,
                       too_many_ads           |-> TooManyAds(adMatches),
                       ads_txt_referenced     |-> referenced ],
          notes  |-> <<>> ],
      lastIndex |-> [li EXCEPT ![bannedPattern.name] = banned.lastIndex,
                               ![adsenseScriptPattern.name] = adsense.lastIndex,
                               ![privacyPattern.name] = privacy.lastIndex,
                               ![contactPattern.name] = contact.lastIndex] ]

\* Lines 58-73: the matches made on the lower-cased markup.
AnalyseLower(html, lower, li) ==
    AnalysisResult(html,
                   RegExpExec(titlePattern, html, 0),
                   test(bannedPattern, lower, li),
                   test(adsenseScriptPattern, lower, li),
                   test(privacyPattern, lower, li),
                   test(contactPattern, lower, li),
                   matchGlobal(lower, adMarkerPattern),
                   includes(lower, AdsTxtLiteral),
                   li)

\* analyseHtml(html, baseUrl): the object returned, and the lastIndex
\* properties of the shared patterns after the call.
analyseHtml(html, baseUrl, li) == AnalyseLower(html, toLowerCase(html), li)

-----------------------------------------------------------------------------
(* Analyser harness: markup is assembled from chunks and analysed, as a     *)
(* unit test of analyseHtml does.                                           *)

NotAnalysed == [ok |-> "none"]

\* The marker, the marker in mixed case, the marker less its last letter, and
\* that letter.
Chunks == { <<"a","d","s","b","y","g","o","o","g","l","e">>,
            <<"A","d","s","B","y","G","o","o","g","l","e">>,
            <<"a","d","s","b","y","g","o","o","g","l">>,
            <<"e">> }

RECURSIVE Flatten(_)
Flatten(chunks) == IF chunks = <<>> THEN <<>> ELSE Head(chunks) \o Flatten(Tail(chunks))

AppendChunk(ch) ==
    /\ Len(doc) < MaxChunks
    /\ doc' = Append(doc, ch)
    /\ analysed' = NotAnalysed
    /\ UNCHANGED <<auditVars, lastIndex, srv>>

RunAnalyse ==
    /\ analysed = NotAnalysed
    /\ \E r \in {analyseHtml(Flatten(doc), <<>>, lastIndex)} :
          /\ analysed' = r.result
          /\ lastIndex' = r.lastIndex
    /\ UNCHANGED <<auditVars, srv, doc>>


-----------------------------------------------------------------------------
(* The environment of an audit: URLs, the WHATWG URL parser, and what the   *)
(* awaited promises of fetch() and response.text() can settle with.         *)

Calls == 1..NCalls

NoValue == [undefined |-> TRUE]

\* Arguments of auditSite: two without the http(s):// prefix, one that is a
\* URL, and one with the prefix that is not a URL.
Urls == { <<"f","t","p",":","/","/","a",".","i","o">>,
          <<"h","t","t","p",":","/","a",".","i","o">>,
          <<"H","T","T","P","S",":","/","/","A",".","i","o","/","p">>,
          <<"h","t","t","p",":","/","/">> }

\* Response bodies.
Pages == { <<>>,
           <<"<","t","i","t","l","e",">"," ","C","a","s","i","n","o"," ","<","/","t","i","t","l","e",">","P","r","i","v","a","c","y"," "," ","P","o","l","i","c","y","."," ","C","o","n","t","a","c","t"," ","u","s","."," ","A","D","S",".","T","X","T"," ">>
             \o <<"a","d","s","b","y","g","o","o","g","l","e"," ","A","D","S","B","Y","G","O","O","G","L","E"," ","a","d","s","b","y","g","o","o","g","l","e"," ","A","d","s","B","y","G","o","o","g","l","e">> }

PageStatuses == {200, 500}
AdsTxtStatuses == {200, 204, 404}

\* What fetch() rejects with.
FetchErrors == { [name |-> "TypeError", message |-> "fetch failed"] }
\* What response.text() rejects with.
BodyErrors == { [name |-> "TypeError", message |-> "terminated"] }
\* What fetch() and new URL() throw for a string that is not a URL.
InvalidUrlError == [name |-> "TypeError", message |-> "Invalid URL"]

\* new URL(u), for the http and https schemes (the only ones that reach it):
\* the scheme is lower-cased, slashes after the colon are skipped, and the
\* host, lower-cased, runs to the next / ? or #. It throws when there is no
\* host.
URLParse(u) ==
    LET colon  == IF \E i \in 1..Len(u) : u[i] = ":"
                  THEN CHOOSE i \in 1..Len(u) :
                          u[i] = ":" /\ \A j \in 1..(i - 1) : u[j] # ":"
                  ELSE 0
        scheme == toLowerCase(SubSeq(u, 1, colon - 1))
        from   == RunEnd(u, colon, {"/", "\\"}, FALSE)
        to     == RunEnd(u, from, {"/", "\\", "?", "#"}, TRUE)
        host   == toLowerCase(Substring(u, from, to))
    IN  IF \/ colon = 0
           \/ scheme \notin {<<"h","t","t","p">>, <<"h","t","t","p","s">>}
           \/ host = <<>>
           \/ \E i \in 1..Len(host) : host[i] \in WhiteSpace
        THEN [ok |-> FALSE]
        ELSE [ok |-> TRUE, origin |-> scheme \o <<":","/","/">> \o host]

\* ok only for status 200.
ResponseOkOnly200(status) == status = 200

\* Response.ok: status in the range 200-299.
ResponseOk(status) == status >= 200 /\ status <= 299

\* String(err) of an Error: its name, then its message when it has one.
ErrorToString(err) ==
    IF err.message = "" THEN err.name ELSE <<err.name, ": ", err.message>>

\* err?.message || String(err)
ErrorDetail(err) == IF err.message # "" THEN err.message ELSE ErrorToString(err)

\* A GET as the code issues it.
Get(u, agent) == [method |-> "GET", url |-> u, userAgent |-> agent]

-----------------------------------------------------------------------------
(* auditSite, block by block. A completion is what a block ends with: the   *)
(* function returns a value, throws, or goes on to its next await.          *)

Return(v) == [kind |-> "return", value |-> v]
Throw(e) == [kind |-> "throw", value |-> e]

\* Lines 91-93.
InvalidUrlReport == [ok |-> FALSE, error |-> "Invalid URL"]

\* Line 91: the guard of the early return.
UrlRejected(u) == ~testLiteral(urlPattern, u)

\* The outer catch rethrowing instead of returning a report.
OuterCatchRethrows(err) == Throw(err)

\* Lines 116-118: the outer catch.
OuterCatch(err) ==
    Return([ok |-> FALSE, error |-> "Fetch failed", detail |-> ErrorDetail(err)])

\* The flag set, and ok made to follow it.
SetAdsTxtExistsAndOk(result, resTxt) ==
    [result EXCEPT !.ok = ResponseOk(resTxt.status),
                   !.checks = @ @@ ("ads_txt_exists" :> ResponseOk(resTxt.status))]

\* Lines 107-111: the flag set from the response of the ads.txt GET.
SetAdsTxtExists(result, resTxt) ==
    [result EXCEPT !.checks = @ @@ ("ads_txt_exists" :> ResponseOk(resTxt.status))]

\* The inner catch leaving the report as the analyser returned it.
InnerCatchNoFlag(result, e) == result

\* Lines 112-114: the inner catch.
InnerCatch(result, e) ==
    [result EXCEPT !.checks = @ @@ ("ads_txt_exists" :> FALSE)]

\* analyseHtml on a response body. The analyses of the bodies the environment
\* serves, made with every lastIndex at 0, are tabulated once; any other call
\* is computed.
PageAnalyses == [h \in Pages |-> analyseHtml(h, <<>>, InitLastIndex)]

analysePage(html, baseUrl, li) ==
    IF html \in Pages /\ li = InitLastIndex
    THEN PageAnalyses[html]
    ELSE analyseHtml(html, baseUrl, li)

\* Lines 101-106: the second GET, from the origin; the inner catch when
\* new URL throws.
AfterAnalysis(a, parsed) ==
    IF parsed.ok
    THEN [ kind |-> "await", result |-> a.result, lastIndex |-> a.lastIndex,
           request |-> Get(parsed.origin \o <<"/","a","d","s",".","t","x","t">>,
                           "AdsenseAuditor/2.0") ]
    ELSE [ kind |-> "return", value |-> InnerCatch(a.result, InvalidUrlError),
           lastIndex |-> a.lastIndex ]

\* Lines 99-106, run when the body has been read: the analysis, then the
\* origin and the second GET.
AfterBody(u, html, li) == AfterAnalysis(analysePage(html, u, li), URLParse(u))

\* Without the inner try: a failed probe reaches the outer catch.
AfterAdsTxtNoInnerTry(result, outcome) ==
    IF outcome.kind = "resolve"
    THEN Return(SetAdsTxtExists(result, outcome.response))
    ELSE OuterCatch(outcome.error)

\* Lines 107-115, run when the ads.txt GET has settled.
AfterAdsTxt(result, outcome) ==
    Return(IF outcome.kind = "resolve"
           THEN SetAdsTxtExists(result, outcome.response)
           ELSE InnerCatch(result, outcome.error))

\* The promise an async function returns settles with its completion.
Settle(c, completion) ==
    settled' = [settled EXCEPT ![c] =
                  IF completion.kind = "return"
                  THEN [state |-> "fulfilled", value |-> completion.value]
                  ELSE [state |-> "rejected", reason |-> completion.value]]

InFlight(c) == pc[c] \notin {"idle", "done"}

Max(a, b) == IF a >= b THEN a ELSE b

\* auditSite(u) is called: lines 91-97, up to the first await. fetch() makes
\* no request for a string that is not a URL: its promise rejects.
auditSite(c, u) ==
    /\ pc[c] = "idle"
    /\ url' = [url EXCEPT ![c] = u]
    /\ peak' = Max(peak, Cardinality({d \in Calls : InFlight(d)}) + 1)
    /\ IF UrlRejected(u)
       THEN /\ Settle(c, Return(InvalidUrlReport))
            /\ pc' = [pc EXCEPT ![c] = "done"]
            /\ steps' = [steps EXCEPT ![c] = <<"validating">>]
            /\ UNCHANGED requests
       ELSE /\ pc' = [pc EXCEPT ![c] = "await_fetch_page"]
            /\ steps' = [steps EXCEPT ![c] = <<"validating", "fetching_page">>]
            /\ requests' = [requests EXCEPT ![c] =
                              IF URLParse(u).ok
                              THEN Append(@, Get(u, "AdsenseAuditor/2.0"))
                              ELSE @]
            /\ UNCHANGED settled
    /\ UNCHANGED <<locals, got, lastIndex, srv, harnessVars>>

\* The page GET issued again when it fails.
PageFetchSettlesRetries(c) ==
    /\ pc[c] = "await_fetch_page"
    /\ \E outcome \in
            {[kind |-> "resolve", response |-> [status |-> st]] : st \in PageStatuses}
              \cup {[kind |-> "reject", error |-> e] : e \in FetchErrors} :
          /\ got' = [got EXCEPT ![c] = Append(@, [op |-> "page"] @@ outcome)]
          /\ IF outcome.kind = "resolve"
             THEN /\ locals' = [locals EXCEPT ![c].response = outcome.response]
                  /\ pc' = [pc EXCEPT ![c] = "await_text"]
                  /\ UNCHANGED <<settled, steps, requests>>
             ELSE /\ Len(requests[c]) < 2
                  /\ requests' = [requests EXCEPT ![c] = Append(@, Get(url[c], "AdsenseAuditor/2.0"))]
                  /\ steps' = [steps EXCEPT ![c] = Append(@, "fetching_page")]
                  /\ UNCHANGED <<pc, locals, settled>>
    /\ UNCHANGED <<url, peak, lastIndex, srv, harnessVars>>

\* Line 95 resumes: the page GET settled.
PageFetchSettles(c) ==
    /\ pc[c] = "await_fetch_page"
    /\ \E outcome \in
            IF URLParse(url[c]).ok
            THEN {[kind |-> "resolve", response |-> [status |-> st]] : st \in PageStatuses}
                   \cup {[kind |-> "reject", error |-> e] : e \in FetchErrors}
            ELSE {[kind |-> "reject", error |-> InvalidUrlError]} :
          /\ got' = [got EXCEPT ![c] = Append(@, [op |-> "page"] @@ outcome)]
          /\ IF outcome.kind = "resolve"
             THEN /\ locals' = [locals EXCEPT ![c].response = outcome.response]
                  /\ pc' = [pc EXCEPT ![c] = "await_text"]
                  /\ UNCHANGED <<settled, steps>>
             ELSE /\ Settle(c, OuterCatch(outcome.error))
                  /\ pc' = [pc EXCEPT ![c] = "done"]
                  /\ steps' = [steps EXCEPT ![c] = Append(@, "failed")]
                  /\ UNCHANGED locals
    /\ UNCHANGED <<url, requests, peak, lastIndex, srv, harnessVars>>

\* Line 98 resumes: response.text() settled. Lines 99-106 follow at once.
BodyReadSettles(c) ==
    /\ pc[c] = "await_text"
    /\ \E outcome \in {[kind |-> "resolve", html |-> h] : h \in Pages}
                        \cup {[kind |-> "reject", error |-> e] : e \in BodyErrors} :
          /\ got' = [got EXCEPT ![c] = Append(@, [op |-> "text"] @@ outcome)]
          /\ IF outcome.kind = "resolve"
             THEN \E next \in {AfterBody(url[c], outcome.html, lastIndex)} :
                      /\ lastIndex' = next.lastIndex
                      /\ IF next.kind = "await"
                         THEN /\ locals' = [locals EXCEPT ![c].result = next.result]
                              /\ requests' = [requests EXCEPT ![c] = Append(@, next.request)]
                              /\ steps' = [steps EXCEPT ![c] = @ \o <<"analyzing", "fetching_adstxt">>]
                              /\ pc' = [pc EXCEPT ![c] = "await_fetch_adstxt"]
                              /\ UNCHANGED settled
                         ELSE /\ Settle(c, next)
                              /\ steps' = [steps EXCEPT ![c] = @ \o <<"analyzing", "completed">>]
                              /\ pc' = [pc EXCEPT ![c] = "done"]
                              /\ UNCHANGED <<locals, requests>>
             ELSE /\ Settle(c, OuterCatch(outcome.error))
                  /\ pc' = [pc EXCEPT ![c] = "done"]
                  /\ steps' = [steps EXCEPT ![c] = Append(@, "failed")]
                  /\ UNCHANGED <<locals, requests, lastIndex>>
    /\ UNCHANGED <<url, peak, srv, harnessVars>>

\* Line 104 resumes: the ads.txt GET settled. Lines 107-115 follow.
AdsTxtFetchSettles(c) ==
    /\ pc[c] = "await_fetch_adstxt"
    /\ \E outcome \in {[kind |-> "resolve", response |-> [status |-> st]] : st \in AdsTxtStatuses}
                        \cup {[kind |-> "reject", error |-> e] : e \in FetchErrors} :
          /\ got' = [got EXCEPT ![c] = Append(@, [op |-> "adstxt"] @@ outcome)]
          /\ Settle(c, AfterAdsTxt(locals[c].result, outcome))
    /\ pc' = [pc EXCEPT ![c] = "done"]
    /\ steps' = [steps EXCEPT ![c] = Append(@, "completed")]
    /\ UNCHANGED <<url, locals, requests, peak, lastIndex, srv, harnessVars>>

-----------------------------------------------------------------------------
(* The request handler of the server.                                       *)

SrvIdle ==
    [ pc |-> "idle", req |-> NoValue, auditUrl |-> NoValue, response |-> NoValue,
      requests |-> <<>>, got |-> <<>> ]

\* Request bodies of a POST: text that is not JSON, the empty body, null, an
\* object without url, and an object with each url.
RequestBodies ==
    { [kind |-> "garbage"], [kind |-> "empty"], [kind |-> "null"], [kind |-> "object"] }
      \cup { [kind |-> "object", url |-> u] : u \in Urls }

ServerRequests ==
    { [method |-> "GET", url |-> p] :
         p \in { <<"/","h","e","a","l","t","h","z">>, <<"/">>, <<"/","a","p","p",".","j","s","?","v","=","1">>, <<"/","l","o","g","o",".","P","N","G">> } }
      \cup { [method |-> "POST", url |-> <<"/","a","p","i","/","a","u","d","i","t">>, body |-> b] : b \in RequestBodies }
      \cup { [method |-> "POST", url |-> <<"/","h","e","a","l","t","h","z">>, body |-> [kind |-> "empty"]] }

\* reqUrl.split('?')[0]
Pathname(reqUrl) == Substring(reqUrl, 0, RunEnd(reqUrl, 0, {"?"}, TRUE))

\* path.extname: from the last dot of the last path segment, "" when the
\* segment has none or starts with its only dot.
extname(path) ==
    LET slashes == {i \in 1..Len(path) : path[i] = "/"}
        base    == IF slashes = {} THEN 0
                   ELSE CHOOSE i \in slashes : \A j \in slashes : j <= i
        dots    == {i \in (base + 2)..Len(path) : path[i] = "."}
    IN  IF dots = {} THEN <<>>
        ELSE SubSeq(path, CHOOSE i \in dots : \A j \in dots : j <= i, Len(path))

\* Lines 26-46.
getMimeType(ext) ==
    LET e == toLowerCase(ext)
    IN  CASE e = <<".","h","t","m","l">> -> "text/html; charset=utf-8"
          [] e = <<".","c","s","s">>  -> "text/css; charset=utf-8"
          [] e = <<".","j","s">>   -> "application/javascript; charset=utf-8"
          [] e = <<".","j","s","o","n">> -> "application/json; charset=utf-8"
          [] e = <<".","p","n","g">>  -> "image/png"
          [] e \in {<<".","j","p","g">>, <<".","j","p","e","g">>} -> "image/jpeg"
          [] e = <<".","s","v","g">>  -> "image/svg+xml"
          [] OTHER -> "application/octet-stream"

\* Lines 62-64: the file served, relative to the public directory.
FilePath(pathname) ==
    IF pathname = <<"/">> \/ pathname = <<>> THEN <<"/","i","n","d","e","x",".","h","t","m","l">> ELSE pathname

\* Line 110: /(porn|xxx|sex\s?cam|escort|casino|betting|gambl)/ , a literal.
srvBannedPattern == [bannedPattern EXCEPT !.name = "srvBanned", !.ignoreCase = FALSE]

\* JSON.parse(body || '{}'): the payload, or the SyntaxError thrown.
JSONParse(body) ==
    CASE body.kind = "garbage" -> Throw([name |-> "SyntaxError", message |-> "Unexpected token"])
      [] body.kind = "empty"   -> Return([kind |-> "object"])
      [] OTHER                 -> Return(body)

\* payload?.url
PayloadUrl(payload) ==
    IF payload.kind = "object" /\ "url" \in DOMAIN payload THEN payload.url ELSE NoValue

Respond(status, headers, body) ==
    [statusCode |-> status, headers |-> headers, body |-> body]

NoHeaders == <<>>

\* Lines 109-126: the report, from the title and the lower-cased page.
SrvReport(html, title, lower) ==
    [ ok     |-> TRUE,
      page   |-> [title |-> title, length |-> Len(html)],
      checks |-> [ potential_policy_risk_terms |-> testLiteral(srvBannedPattern, lower),
                   has_ads_txt_reference       |-> includes(lower, AdsTxtLiteral) ],
      notes  |-> <<"This is a smoke test. Extend with layout analysis and more specific AdSense policies.">> ]

\* Lines 103-126: the report the handler builds from the page.
SrvResult(html) ==
    SrvReport(html, TitleOf(html, RegExpExec(titlePattern, html, 0)), toLowerCase(html))

\* The same, tabulated for the bodies the environment serves.
SrvResults == [h \in Pages |-> SrvResult(h)]

\* Lines 131-134.
SrvFetchFailed(err) ==
    Respond(502, NoHeaders, [ok |-> FALSE, error |-> "Fetch failed", detail |-> ErrorDetail(err)])

\* Lines 48-74 and 140-142: a request arrives and is routed.
ServerRequest(rq) ==
    /\ srv.pc = "idle"
    /\ LET pathname == Pathname(rq.url)
       IN  srv' =
             IF rq.method = "GET" /\ pathname = <<"/","h","e","a","l","t","h","z">>
             THEN [srv EXCEPT !.pc = "responded", !.req = rq,
                              !.response = Respond(200, NoHeaders, "")]
             ELSE IF rq.method = "GET"
             THEN [srv EXCEPT !.pc = "await_readFile", !.req = rq]
             ELSE IF rq.method = "POST" /\ pathname = <<"/","a","p","i","/","a","u","d","i","t">>
             THEN [srv EXCEPT !.pc = "await_end", !.req = rq]
             ELSE [srv EXCEPT !.pc = "responded", !.req = rq,
                              !.response = Respond(404, NoHeaders, "Not Found")]
    /\ UNCHANGED <<auditVars, lastIndex, harnessVars>>

\* Line 66 resumes: the file was read, or was not; a GET that finds no file
\* falls through to the catch-all.
ReadFileSettles ==
    /\ srv.pc = "await_readFile"
    /\ \E found \in BOOLEAN :
          srv' = [srv EXCEPT
                    !.pc = "responded",
                    !.response =
                       IF found
                       THEN Respond(200,
                                    <<<<"Content-Type",
                                        getMimeType(extname(FilePath(Pathname(srv.req.url))))>>>>,
                                    "file")
                       ELSE Respond(404, NoHeaders, "Not Found")]
    /\ UNCHANGED <<auditVars, lastIndex, harnessVars>>

\* Lines 80-101: the request body has arrived.
RequestEnd ==
    /\ srv.pc = "await_end"
    /\ LET parsed   == JSONParse(srv.req.body)
           auditUrl == PayloadUrl(parsed.value)
       IN  srv' =
             IF parsed.kind = "throw"
             THEN [srv EXCEPT !.pc = "responded",
                              !.response = Respond(400, NoHeaders,
                                              [ok |-> FALSE, error |-> "Invalid JSON body"])]
             ELSE IF auditUrl = NoValue \/ auditUrl = <<>> \/ ~testLiteral(urlPattern, auditUrl)
             THEN [srv EXCEPT !.pc = "responded",
                              !.response = Respond(400, NoHeaders,
                                              [ok |-> FALSE,
                                               error |-> "Provide a valid http(s) URL in { url }"])]
             ELSE [srv EXCEPT !.pc = "await_fetch", !.auditUrl = auditUrl,
                              !.requests = IF URLParse(auditUrl).ok
                                           THEN Append(@, Get(auditUrl, "AdsenseAuditor/1.0"))
                                           ELSE @]
    /\ UNCHANGED <<auditVars, lastIndex, harnessVars>>

\* Line 97 resumes.
SrvFetchSettles ==
    /\ srv.pc = "await_fetch"
    /\ \E outcome \in
            IF URLParse(srv.auditUrl).ok
            THEN {[kind |-> "resolve", response |-> [status |-> st]] : st \in PageStatuses}
                   \cup {[kind |-> "reject", error |-> e] : e \in FetchErrors}
            ELSE {[kind |-> "reject", error |-> InvalidUrlError]} :
          srv' = IF outcome.kind = "resolve"
                 THEN [srv EXCEPT !.pc = "await_text",
                                  !.got = Append(@, [op |-> "page"] @@ outcome)]
                 ELSE [srv EXCEPT !.pc = "responded",
                                  !.got = Append(@, [op |-> "page"] @@ outcome),
                                  !.response = SrvFetchFailed(outcome.error)]
    /\ UNCHANGED <<auditVars, lastIndex, harnessVars>>

\* Line 102 resumes; lines 103-129 follow.
SrvTextSettles ==
    /\ srv.pc = "await_text"
    /\ \E outcome \in {[kind |-> "resolve", html |-> h] : h \in Pages}
                        \cup {[kind |-> "reject", error |-> e] : e \in BodyErrors} :
          srv' = [srv EXCEPT
                    !.pc = "responded",
                    !.got = Append(@, [op |-> "text"] @@ outcome),
                    !.response =
                       IF outcome.kind = "resolve"
                       THEN Respond(200,
                                    <<<<"Content-Type", "application/json; charset=utf-8">>>>,
                                    SrvResults[outcome.html])
                       ELSE SrvFetchFailed(outcome.error)]
    /\ UNCHANGED <<auditVars, lastIndex, harnessVars>>

-----------------------------------------------------------------------------
(* Specifications.                                                          *)

Init ==
    /\ pc = [c \in Calls |-> "idle"]
    /\ url = [c \in Calls |-> NoValue]
    /\ locals = [c \in Calls |-> [response |-> NoValue, result |-> NoValue]]
    /\ got = [c \in Calls |-> <<>>]
    /\ requests = [c \in Calls |-> <<>>]
    /\ steps = [c \in Calls |-> <<>>]
    /\ settled = [c \in Calls |-> [state |-> "none"]]
    /\ peak = 0
    /\ lastIndex = InitLastIndex
    /\ srv = SrvIdle
    /\ doc = <<>>
    /\ analysed = NotAnalysed

\* Any number of auditSite calls, interleaved at their awaits.
Next ==
    \E c \in Calls :
        \/ \E u \in Urls : auditSite(c, u)
        \/ PageFetchSettles(c)
        \/ BodyReadSettles(c)
        \/ AdsTxtFetchSettles(c)

Spec == Init /\ [][Next]_vars

\* The analyser alone.
NextAnalyse ==
    \/ \E ch \in Chunks : AppendChunk(ch)
    \/ RunAnalyse

SpecAnalyse == Init /\ [][NextAnalyse]_vars

\* One request to the server, and one direct call of auditSite to compare
\* it with.
NextServer ==
    \/ \E rq \in ServerRequests : ServerRequest(rq)
    \/ ReadFileSettles
    \/ RequestEnd
    \/ SrvFetchSettles
    \/ SrvTextSettles
    \/ \E u \in Urls : auditSite(1, u)
    \/ PageFetchSettles(1)
    \/ BodyReadSettles(1)
    \/ AdsTxtFetchSettles(1)

SpecServer == Init /\ [][NextServer]_vars


-----------------------------------------------------------------------------
(* Properties.                                                              *)

Done(c) == pc[c] = "done"
Fulfilled(c) == settled[c].state = "fulfilled"
Report(c) == settled[c].value

\* Whether u starts with http:// or https://, in any case.
HasHttpPrefix(u) ==
    \E prefix \in {<<"h","t","t","p",":","/","/">>, <<"h","t","t","p","s",":","/","/">>} :
        /\ Len(u) >= Len(prefix)
        /\ toLowerCase(SubSeq(u, 1, Len(prefix))) = prefix

\* The outcomes of a call, by how far it got.
PageFetched(c) == Len(got[c]) >= 1 /\ got[c][1].kind = "resolve"
BodyRead(c) == Len(got[c]) >= 2 /\ got[c][2].kind = "resolve"
ProbeSettled(c) == Len(got[c]) >= 3
ProbeSucceeded(c) ==
    /\ ProbeSettled(c)
    /\ got[c][3].kind = "resolve"
    /\ got[c][3].response.status \in 200..299

AnalyserKeys ==
    { "banned_content", "adsense_script_present", "privacy_policy_present",
      "contact_info_present", "too_many_ads", "ads_txt_referenced" }

AdsTxtRequests(c) ==
    {i \in 1..Len(requests[c]) :
        LET r == requests[c][i].url
        IN  Len(r) >= 8 /\ SubSeq(r, Len(r) - 7, Len(r)) = <<"/","a","d","s",".","t","x","t">>}

\* C1: a call whose url lacks the http(s):// prefix returns exactly
\* { ok: false, error: "Invalid URL" } and issues no request at all.
C1_InvalidUrlNoNetwork ==
    \A c \in Calls :
        (pc[c] # "idle" /\ ~HasHttpPrefix(url[c]))
            => /\ settled[c] = [state |-> "fulfilled",
                                value |-> [ok |-> FALSE, error |-> "Invalid URL"]]
               /\ requests[c] = <<>>
               /\ got[c] = <<>>

C1_Witness ==
    \E c \in Calls :
        /\ Done(c)
        /\ url[c] = <<"h","t","t","p",":","/","a",".","i","o">>
        /\ Fulfilled(c)
        /\ Report(c).error = "Invalid URL"

\* C2: when the page was fetched and read and the ads.txt probe failed (it
\* was rejected, it was never issued, or its status was not 2xx), the report
\* has ok true, ads_txt_exists false, no error or detail, and the page and six
\* checks the analyser returned.
C2_ProbeFailureIsolated ==
    \A c \in Calls :
        (Done(c) /\ BodyRead(c) /\ ~ProbeSucceeded(c))
            => /\ Fulfilled(c)
               /\ Report(c).ok = TRUE
               /\ Report(c).checks.ads_txt_exists = FALSE
               /\ {"error", "detail"} \cap DOMAIN Report(c) = {}
               /\ Report(c).page = locals[c].result.page
               /\ \A k \in AnalyserKeys :
                     Report(c).checks[k] = locals[c].result.checks[k]
               /\ locals[c].result = PageAnalyses[got[c][2].html].result

C2_Witness ==
    \E c \in Calls :
        /\ Done(c)
        /\ BodyRead(c)
        /\ ProbeSettled(c)
        /\ got[c][3].kind = "reject"
        /\ Report(c).ok = TRUE
        /\ Report(c).checks.banned_content = TRUE
        /\ Report(c).checks.ads_txt_exists = FALSE

\* The transitions of the state machine of a call.
PhaseTransitions ==
    { <<"validating", "fetching_page">>,
      <<"fetching_page", "failed">>,
      <<"fetching_page", "analyzing">>,
      <<"analyzing", "fetching_adstxt">>,
      <<"fetching_adstxt", "completed">> }

\* C3: the phases of a call are a path of validating -> fetching_page ->
\* {failed | analyzing -> fetching_adstxt -> completed}; the ads.txt GET is
\* issued only once the page was fetched, read and analysed, never after a
\* failed page fetch; each GET is issued at most once; nothing follows failed
\* or completed.
C3_StateMachine ==
    \A c \in Calls :
        /\ (steps[c] # <<>>) => steps[c][1] = "validating"
        /\ \A i \in 1..(Len(steps[c]) - 1) :
              <<steps[c][i], steps[c][i + 1]>> \in PhaseTransitions
        /\ (pc[c] = "done") =>
              steps[c][Len(steps[c])] \in
                 (IF HasHttpPrefix(url[c]) THEN {"failed", "completed"} ELSE {"validating"})
        /\ (pc[c] \in {"await_fetch_page", "await_text"}) =>
              steps[c][Len(steps[c])] = "fetching_page"
        /\ (pc[c] = "await_fetch_adstxt") =>
              steps[c][Len(steps[c])] = "fetching_adstxt"
        /\ Cardinality(AdsTxtRequests(c)) <= 1
        /\ Len(requests[c]) - Cardinality(AdsTxtRequests(c)) <= 1
        /\ (AdsTxtRequests(c) # {}) =>
              /\ BodyRead(c)
              /\ locals[c].result # NoValue
              /\ AdsTxtRequests(c) = {2}
              /\ \E i \in 1..Len(steps[c]) : steps[c][i] = "analyzing"
        /\ (\E i \in 1..Len(steps[c]) : steps[c][i] = "failed") =>
              /\ AdsTxtRequests(c) = {}
              /\ pc[c] = "done"
        /\ (\E i \in 1..Len(steps[c]) : steps[c][i] = "completed") => pc[c] = "done"

C3_Witness ==
    /\ \E c \in Calls :
          steps[c] = <<"validating", "fetching_page", "analyzing", "fetching_adstxt", "completed">>
    /\ \E c \in Calls :
          steps[c] = <<"validating", "fetching_page", "failed">> /\ Len(requests[c]) = 1

\* C4: a report has one of two shapes: ok true with page, the six analyser
\* checks and ads_txt_exists and no error; or ok false with error and neither
\* page nor checks. ads_txt_exists appears only when the page was fetched and
\* read, and what analyseHtml returns has the six checks and not ads_txt_exists.
C4_ReportShape ==
    \A c \in Calls :
        /\ Fulfilled(c) =>
              LET r == Report(c)
              IN  /\ \/ /\ r.ok = TRUE
                        /\ {"page", "checks"} \subseteq DOMAIN r
                        /\ DOMAIN r.page = {"title", "length"}
                        /\ DOMAIN r.checks = AnalyserKeys \cup {"ads_txt_exists"}
                        /\ \A k \in DOMAIN r.checks : r.checks[k] \in BOOLEAN
                        /\ "error" \notin DOMAIN r
                     \/ /\ r.ok = FALSE
                        /\ "error" \in DOMAIN r
                        /\ {"page", "checks"} \cap DOMAIN r = {}
                  /\ r.ok = TRUE => BodyRead(c)
        /\ (locals[c].result # NoValue) =>
              /\ DOMAIN locals[c].result.checks = AnalyserKeys
              /\ locals[c].result.ok = TRUE

C4_Witness ==
    /\ \E c \in Calls :
          Done(c) /\ Report(c).ok = TRUE /\ ProbeSettled(c) /\ got[c][3].kind = "reject"
    /\ \E c \in Calls :
          Done(c) /\ Report(c).ok = FALSE /\ Report(c).error = "Fetch failed"

\* C5: the body the server sends for POST /api/audit equals the report
\* auditSite returns for the same url and the same outcomes of the page GET and
\* the body read, and the server issues the same requests.
C5_DispatcherReturnsAuditReport ==
    \A c \in Calls :
        ( /\ srv.pc = "responded"
          /\ srv.req.method = "POST"
          /\ Pathname(srv.req.url) = <<"/","a","p","i","/","a","u","d","i","t">>
          /\ PayloadUrl(srv.req.body) # NoValue
          /\ Done(c)
          /\ Fulfilled(c)
          /\ url[c] = PayloadUrl(srv.req.body)
          /\ \A i \in 1..Len(srv.got) : i <= Len(got[c]) /\ got[c][i] = srv.got[i]
          /\ Len(got[c]) >= 1 => Len(srv.got) >= 1
          /\ Len(got[c]) >= 2 => Len(srv.got) >= 2 )
            => /\ srv.response.body = Report(c)
               /\ [i \in 1..Len(srv.requests) |-> srv.requests[i].url]
                    = [i \in 1..Len(requests[c]) |-> requests[c][i].url]

\* C6: the promise of a finished call is fulfilled with a report, never
\* rejected; a failed page fetch or body read gives
\* { ok: false, error: "Fetch failed", detail: <message> }.
C6_FailuresAreData ==
    \A c \in Calls :
        /\ Done(c) <=> settled[c].state = "fulfilled"
        /\ settled[c].state \in {"none", "fulfilled"}
        /\ Done(c) => "ok" \in DOMAIN Report(c)
        /\ (Done(c) /\ HasHttpPrefix(url[c]) /\ ~BodyRead(c)) =>
              Report(c) = [ ok |-> FALSE, error |-> "Fetch failed",
                            detail |-> got[c][Len(got[c])].error.message ]

C6_Witness ==
    /\ \E c \in Calls :
          Done(c) /\ PageFetched(c) /\ ~BodyRead(c) /\ Report(c).detail = "terminated"
    /\ \E c \in Calls :
          Done(c) /\ ProbeSettled(c) /\ got[c][3].kind = "reject" /\ Fulfilled(c)

\* C7: ok is false only for a url without the prefix or a failed page fetch
\* or body read; with the prefix and a body read, ok is true whatever the
\* status of the page response and the outcome of the probe.
C7_OkFalseOnlyOnFailure ==
    \A c \in Calls :
        Done(c) =>
            /\ Fulfilled(c)
            /\ Report(c).ok \in BOOLEAN
            /\ (Report(c).ok = FALSE) <=> (~HasHttpPrefix(url[c]) \/ ~BodyRead(c))

C7_Witness ==
    \E c \in Calls :
        /\ Done(c)
        /\ BodyRead(c)
        /\ got[c][1].response.status = 500
        /\ ProbeSettled(c)
        /\ got[c][3].kind = "resolve"
        /\ got[c][3].response.status = 404
        /\ Report(c).ok = TRUE

\* C8: when the probe was issued, ads_txt_exists is true exactly when it
\* returned a response with a 2xx status.
C8_AdsTxtExistsIff2xx ==
    \A c \in Calls :
        (Done(c) /\ ProbeSettled(c)) =>
            /\ Fulfilled(c)
            /\ Report(c).checks.ads_txt_exists = ProbeSucceeded(c)

C8_Witness ==
    /\ \E c \in Calls :
          /\ Done(c) /\ ProbeSettled(c) /\ got[c][3].kind = "resolve"
          /\ got[c][3].response.status = 204
          /\ Report(c).checks.ads_txt_exists = TRUE
    /\ \E c \in Calls :
          /\ Done(c) /\ ProbeSettled(c) /\ got[c][3].kind = "resolve"
          /\ got[c][3].response.status = 404
          /\ Report(c).checks.ads_txt_exists = FALSE

\* What follows the body read, to the end of the call.
AloneFrom(next, outcomes) ==
    IF next.kind = "return" THEN Return(next.value)
    ELSE AfterAdsTxt(next.result, outcomes[3])

\* auditSite run alone, in a module just loaded, with the given outcomes: the
\* completion of the call.
AuditAlone(u, outcomes) ==
    IF UrlRejected(u) THEN Return(InvalidUrlReport)
    ELSE IF outcomes[1].kind = "reject" THEN OuterCatch(outcomes[1].error)
    ELSE IF outcomes[2].kind = "reject" THEN OuterCatch(outcomes[2].error)
    ELSE AloneFrom(AfterBody(u, outcomes[2].html, InitLastIndex), outcomes)

\* C9: however the calls interleave, each returns the report it would return
\* run alone with the same outcomes, and no call changes the state of the
\* shared patterns.
C9_CallsIndependent ==
    /\ lastIndex = InitLastIndex
    /\ \A c \in Calls :
          Done(c) =>
             /\ Fulfilled(c)
             /\ Report(c) = AuditAlone(url[c], got[c]).value

C9_Witness ==
    /\ peak >= 2
    /\ \A c \in {1, 2} :
          /\ Done(c)
          /\ ProbeSettled(c)
          /\ Report(c).checks.banned_content = TRUE

\* The positions of the marker in the markup, upper and lower case alike.
MarkerPositions(html) ==
    {p \in 0..(Len(html) - 11) :
        toLowerCase(Substring(html, p, p + 11)) = <<"a","d","s","b","y","g","o","o","g","l","e">>}

\* The largest number of occurrences of the marker no two of which overlap.
MarkerCount(html) ==
    LET sets == {S \in SUBSET MarkerPositions(html) :
                    \A p, q \in S : p # q => (p - q >= 11 \/ q - p >= 11)}
    IN  CHOOSE n \in 0..Len(html) :
            /\ \E S \in sets : Cardinality(S) = n
            /\ \A S \in sets : Cardinality(S) <= n

\* C10: too_many_ads is true exactly when the markup holds more than 3
\* occurrences of the marker, in any case.
C10_TooManyAdsThreshold ==
    (analysed # NotAnalysed) =>
        analysed.checks.too_many_ads = (MarkerCount(Flatten(doc)) > 3)

C10_Witness ==
    /\ analysed # NotAnalysed
    /\ MarkerCount(Flatten(doc)) = 4
    /\ Len(doc) = 5
    /\ analysed.checks.too_many_ads = TRUE

=============================================================================
